---- MODULE Spec2Model ----
(***************************************************************************)
(* Keyword Intelligence API (backend/main.py): model loading at startup,   *)
(* request validation (pydantic ExtractRequest + the handlers' own checks),*)
(* the five analysis stages of /extract with their try/except boundaries,  *)
(* the /extract_pdf document path, and the readiness endpoints.            *)
(*                                                                         *)
(* Texts are modelled by what the code can observe of them: the number of  *)
(* leading whitespace characters, the length of the part between the first *)
(* and the last non-whitespace character, the number of trailing           *)
(* whitespace characters, and the identity of the content (doc).  The      *)
(* external libraries (TfidfVectorizer, KeyBERT, spaCy, the two            *)
(* transformers pipelines, pypdf) are modelled at their call boundary: a   *)
(* call either raises or returns a value that is a function of its         *)
(* arguments.                                                              *)
(***************************************************************************)
EXTENDS Integers, Sequences, FiniteSets, TLC

(***************************************************************************)
(* Program constants (backend/main.py, lines 24-36 and inline literals).   *)
(***************************************************************************)
TOPIC_LABELS ==
    <<"crime", "business", "politics", "technology",
      "health", "fraud", "terrorism", "finance">>
MIN_KEYWORDS == 1
MAX_KEYWORDS == 50
MIN_NGRAM == 1
MAX_NGRAM == 5
MIN_TEXT_LENGTH == 10
MAX_TEXT_LENGTH == 50000
DEFAULT_TOP_N == 10
DEFAULT_NG_MIN == 1
DEFAULT_NG_MAX == 3
MAX_PHRASES == 20
SHORT_TEXT_THRESHOLD == 100
SUMMARY_INPUT_LIMIT == 1024
CLASSIFY_INPUT_LIMIT == 512

(***************************************************************************)
(* Bounds of the model.                                                    *)
(***************************************************************************)
\* most whitespace characters put before or after a text
MaxPad == 1
\* most items beyond top_n the semantic keyword model may return (SpecAnyModel)
MaxExtra == 1
\* number of concurrently served /extract requests (SpecConc)
NumReq == 2

Min(a, b) == IF a <= b THEN a ELSE b
Max(a, b) == IF a >= b THEN a ELSE b

Take(s, n) == SubSeq(s, 1, Min(Len(s), Max(n, 0)))

(***************************************************************************)
(* Texts.                                                                  *)
(***************************************************************************)
Stages == {"tfidf", "keybert", "phrases", "summary", "topic"}

\* Python None for the Optional[str] field
NoneText == [isNone |-> TRUE, doc |-> "", lead |-> 0, body |-> 0, trail |-> 0]

Str(doc, lead, body, trail) ==
    [isNone |-> FALSE, doc |-> IF body = 0 THEN "" ELSE doc,
     lead |-> IF body = 0 THEN lead + trail ELSE lead, body |-> body,
     trail |-> IF body = 0 THEN 0 ELSE trail]

EmptyStr == Str("", 0, 0, 0)

\* len(s)
len(t) == t.lead + t.body + t.trail

\* s.strip(): leading and trailing whitespace removed
strip(t) == Str(t.doc, 0, t.body, 0)

\* s[:k]
Slice(t, k) ==
    LET l == Min(t.lead, k)
        b == Min(t.body, k - l)
        r == Min(t.trail, k - l - b)
    IN  Str(t.doc, l, b, r)

\* a + b on strings
Concat(a, b) ==
    IF a.body = 0 THEN Str(b.doc, len(a) + b.lead, b.body, b.trail)
    ELSE IF b.body = 0 THEN Str(a.doc, a.lead, a.body, a.trail + len(b))
    ELSE Str(a.doc, a.lead, a.body + a.trail + b.lead + b.body, b.trail)

\* Python truthiness of an Optional[str]
Truthy(t) == ~t.isNone /\ len(t) > 0

\* number of content tokens (words surviving the English stop-word list) of
\* the documents the model draws its texts from
DocTokens(doc) == IF doc = "A" THEN 1 ELSE IF doc = "B" THEN 4 ELSE 0

(***************************************************************************)
(* Request validation: class ExtractRequest (pydantic).  Fields are        *)
(* validated in declaration order text, top_n, ng_min, ng_max; every       *)
(* failing field adds one error and the errors are reported together, in   *)
(* that order.  A field that is not given takes its default, which is not  *)
(* validated.  A raw request is [text, given, top_n, ng_min, ng_max],      *)
(* given being the set of parameter names present in the request.          *)
(***************************************************************************)
\* a variant that measures the text before stripping it
validate_text_unstripped(v) ==
    IF v.isNone THEN [err |-> "", value |-> v]
    ELSE IF len(v) < MIN_TEXT_LENGTH
        THEN [err |-> "text_too_short", value |-> strip(v)]
    ELSE IF len(v) > MAX_TEXT_LENGTH
        THEN [err |-> "text_too_long", value |-> strip(v)]
    ELSE [err |-> "", value |-> strip(v)]

\* @field_validator('text')
validate_text(v) ==
    IF v.isNone THEN [err |-> "", value |-> v]
    ELSE LET s == strip(v)
         IN  IF len(s) < MIN_TEXT_LENGTH
                 THEN [err |-> "text_too_short", value |-> s]
             ELSE IF len(s) > MAX_TEXT_LENGTH
                 THEN [err |-> "text_too_long", value |-> s]
             ELSE [err |-> "", value |-> s]

\* Field(default, ge=lo, le=hi)
IntField(isGiven, v, default, lo, hi, name) ==
    IF ~isGiven THEN [err |-> "", value |-> default]
    ELSE IF v < lo \/ v > hi THEN [err |-> name, value |-> v]
    ELSE [err |-> "", value |-> v]

\* @field_validator('ng_max'): info.data holds ng_min only if ng_min validated
validate_ng_max(v, hasNgMin, ngMin) ==
    IF hasNgMin /\ v < ngMin THEN "ng_order" ELSE ""

ErrSeq(e) == IF e = "" THEN <<>> ELSE <<e>>

ExtractRequest(raw) ==
    LET t  == validate_text(raw.text)
        n  == IntField("top_n" \in raw.given, raw.top_n, DEFAULT_TOP_N,
                       MIN_KEYWORDS, MAX_KEYWORDS, "top_n_bounds")
        lo == IntField("ng_min" \in raw.given, raw.ng_min, DEFAULT_NG_MIN,
                       MIN_NGRAM, MAX_NGRAM, "ng_min_bounds")
        hi == IntField("ng_max" \in raw.given, raw.ng_max, DEFAULT_NG_MAX,
                       MIN_NGRAM, MAX_NGRAM, "ng_max_bounds")
        hiErr == IF hi.err # "" THEN hi.err
                 ELSE IF "ng_max" \in raw.given
                     THEN validate_ng_max(hi.value, lo.err = "", lo.value)
                 ELSE ""
    IN  [errors  |-> ErrSeq(t.err) \o ErrSeq(n.err) \o ErrSeq(lo.err)
                     \o ErrSeq(hiErr),
         payload |-> [text |-> t.value, top_n |-> n.value,
                      ng_min |-> lo.value, ng_max |-> hi.value]]

(***************************************************************************)
(* The libraries at their call boundary.  lib.raises is the set of stages  *)
(* whose library call raises; lib.kbOver is the number of items beyond     *)
(* top_n the semantic keyword model returns (0 for KeyBERT as released).   *)
(***************************************************************************)
NGramsOf(doc, tokens, n) ==
    [i \in 1..Max(tokens - n + 1, 0) |-> <<doc, n, i>>]

RECURSIVE Features(_, _, _, _)
Features(doc, tokens, n, ng_max) ==
    IF n > ng_max THEN <<>>
    ELSE NGramsOf(doc, tokens, n) \o Features(doc, tokens, n + 1, ng_max)

\* TfidfVectorizer(stop_words="english", ngram_range).fit_transform([text]);
\* the feature names ranked by score.  An empty vocabulary raises ValueError.
LibTfidf(text, ng_min, ng_max, lib) ==
    LET f == Features(text.doc, DocTokens(text.doc), ng_min, ng_max)
    IN  [raised |-> "tfidf" \in lib.raises \/ f = <<>>, value |-> f]

\* kw_model.extract_keywords(text, keyphrase_ngram_range, stop_words, top_n):
\* (phrase, score) pairs, best first; [] when there is no candidate
LibKeyBERT(text, ng_min, ng_max, top_n, lib) ==
    LET f == Features(text.doc, DocTokens(text.doc), ng_min, ng_max)
    IN  [raised |-> "keybert" \in lib.raises,
         value  |-> [i \in 1..Min(Len(f), top_n + lib.kbOver) |->
                        <<f[i], "score">>]]

\* number of noun chunks spaCy finds in the documents of the model
DocChunks(doc) == IF doc = "A" THEN 2 ELSE IF doc = "B" THEN 22 ELSE 0

\* nlp(text).noun_chunks, in document order
LibNounChunks(text, lib) ==
    [raised |-> "phrases" \in lib.raises,
     value  |-> [i \in 1..DocChunks(text.doc) |-> <<text.doc, "np", i>>]]

\* summarizer(input, max_length, min_length, do_sample=False)
LibSummarize(input, lib) ==
    [raised |-> "summary" \in lib.raises,
     value  |-> <<[summary_text |-> [isNone |-> FALSE, summary_of |-> input]]>>]

Rotate(s, k) == [i \in 1..Len(s) |-> s[((i + k - 1) % Len(s)) + 1]]

\* classifier(input, candidate_labels): the labels, most likely first
LibClassify(input, labels, lib) ==
    [raised |-> "topic" \in lib.raises,
     value  |-> [labels |-> Rotate(labels, len(input))]]

(***************************************************************************)
(* The five stages of extract(), each with its own try/except.  h is the   *)
(* record of the four module-level model handles.  A stage yields          *)
(*   esc   - an exception left the stage's try block (none does),          *)
(*   value - the value of the stage's response field,                      *)
(*   calls - the library invocations it made, with their arguments.        *)
(***************************************************************************)
Stage(value, calls) == [esc |-> FALSE, value |-> value, calls |-> calls]

\* lines 190-198
tfidf_stage(text, ng_min, ng_max, top_n, lib) ==
    LET r == LibTfidf(text, ng_min, ng_max, lib)
    IN  Stage(IF r.raised THEN <<>> ELSE Take(r.value, top_n),
              <<[stage |-> "tfidf", input |-> text,
                 ng_min |-> ng_min, ng_max |-> ng_max]>>)

\* a variant without the try/except around the KeyBERT call
keybert_stage_unguarded(text, ng_min, ng_max, top_n, h, lib) ==
    LET r == LibKeyBERT(text, ng_min, ng_max, top_n, lib)
    IN  [esc   |-> h.kw_model = "None" \/ r.raised,
         value |-> [i \in 1..Len(r.value) |-> r.value[i][1]],
         calls |-> IF h.kw_model = "None" THEN <<>>
                   ELSE <<[stage |-> "keybert", input |-> text,
                           ng_min |-> ng_min, ng_max |-> ng_max,
                           top_n |-> top_n]>>]

\* lines 200-213
keybert_stage(text, ng_min, ng_max, top_n, h, lib) ==
    IF h.kw_model = "None" THEN Stage(<<>>, <<>>)
    ELSE LET r == LibKeyBERT(text, ng_min, ng_max, top_n, lib)
         IN  Stage(IF r.raised THEN <<>>
                   ELSE [i \in 1..Len(r.value) |-> r.value[i][1]],
                   <<[stage |-> "keybert", input |-> text, ng_min |-> ng_min,
                      ng_max |-> ng_max, top_n |-> top_n]>>)

\* lines 215-223
phrases_stage(text, h, lib) ==
    IF h.nlp = "None" THEN Stage(<<>>, <<>>)
    ELSE LET r == LibNounChunks(text, lib)
         IN  Stage(IF r.raised THEN <<>> ELSE Take(r.value, MAX_PHRASES),
                   <<[stage |-> "phrases", input |-> text]>>)

\* lines 225-244
summary_stage(text, h, lib) ==
    IF h.summarizer # "None"
    THEN IF len(text) > SHORT_TEXT_THRESHOLD
         THEN LET text_for_summary == Slice(text, SUMMARY_INPUT_LIMIT)
                  r == LibSummarize(text_for_summary, lib)
              IN  Stage(IF r.raised THEN EmptyStr
                        ELSE r.value[1].summary_text,
                        <<[stage |-> "summary", input |-> text_for_summary]>>)
         ELSE Stage(text, <<>>)
    ELSE Stage(EmptyStr, <<>>)

\* a variant that classifies the whole text
topic_stage_untruncated(text, h, lib) ==
    IF h.classifier # "None"
    THEN LET r == LibClassify(text, TOPIC_LABELS, lib)
         IN  Stage(IF r.raised THEN <<>> ELSE r.value.labels,
                   <<[stage |-> "topic", input |-> text,
                      candidate_labels |-> TOPIC_LABELS]>>)
    ELSE Stage(<<>>, <<>>)

\* lines 246-257
topic_stage(text, h, lib) ==
    IF h.classifier # "None"
    THEN LET text_for_classification == Slice(text, CLASSIFY_INPUT_LIMIT)
             r == LibClassify(text_for_classification, TOPIC_LABELS, lib)
         IN  Stage(IF r.raised THEN <<>> ELSE r.value.labels,
                   <<[stage |-> "topic", input |-> text_for_classification,
                      candidate_labels |-> TOPIC_LABELS]>>)
    ELSE Stage(<<>>, <<>>)

(***************************************************************************)
(* Responses: the HTTP status, the reported errors (in order), the         *)
(* aggregate record (only with status 200) and the library invocations     *)
(* made while handling the request.                                        *)
(***************************************************************************)
NoRecord == [none |-> TRUE]

Reject(status, errors, calls) ==
    [status |-> status, errors |-> errors, record |-> NoRecord,
     calls |-> calls]

Ok(record, calls) ==
    [status |-> 200, errors |-> <<>>, record |-> record, calls |-> calls]

\* the calls made up to and including the first stage an exception leaves
RECURSIVE CallsUntilEsc(_)
CallsUntilEsc(ss) ==
    IF ss = <<>> THEN <<>>
    ELSE Head(ss).calls
         \o (IF Head(ss).esc THEN <<>> ELSE CallsUntilEsc(Tail(ss)))

\* a variant without the handler's own n-gram ordering check
extract_checks_no_order(payload) ==
    IF ~Truthy(payload.text) \/ ~Truthy(strip(payload.text))
        THEN Reject(400, <<"no_text">>, <<>>)
    ELSE NoRecord

\* a variant that looks at the text before the n-gram ordering
extract_checks_text_first(payload) ==
    IF ~Truthy(payload.text) \/ ~Truthy(strip(payload.text))
        THEN Reject(400, <<"no_text">>, <<>>)
    ELSE IF payload.ng_max < payload.ng_min
        THEN Reject(400, <<"ng_order">>, <<>>)
    ELSE NoRecord

\* the checks of extract() before any stage, lines 172-180: the rejection, or
\* NoRecord when the request goes on to the stages
extract_checks(payload) ==
    IF payload.ng_max < payload.ng_min
        THEN Reject(400, <<"ng_order">>, <<>>)
    ELSE IF ~Truthy(payload.text) \/ ~Truthy(strip(payload.text))
        THEN Reject(400, <<"no_text">>, <<>>)
    ELSE NoRecord

\* extract(payload), lines 172-272; payload is a validated ExtractRequest
extract(payload, h, lib) ==
    IF extract_checks(payload) # NoRecord THEN extract_checks(payload)
    ELSE
        LET text   == strip(payload.text)
            ng_min == payload.ng_min
            ng_max == payload.ng_max
            top_n  == payload.top_n
            s1 == tfidf_stage(text, ng_min, ng_max, top_n, lib)
            s2 == keybert_stage(text, ng_min, ng_max, top_n, h, lib)
            s3 == phrases_stage(text, h, lib)
            s4 == summary_stage(text, h, lib)
            s5 == topic_stage(text, h, lib)
            ss == <<s1, s2, s3, s4, s5>>
        IN  IF \E i \in 1..5 : ss[i].esc
                THEN Reject(500, <<"internal">>, CallsUntilEsc(ss))
            ELSE Ok([rule_keywords |-> s1.value, ml_keywords |-> s2.value,
                     phrases |-> s3.value, summary |-> s4.value,
                     topic |-> s5.value],
                    CallsUntilEsc(ss))

\* POST /extract: the body is parsed into ExtractRequest (422 with every
\* field error when that fails), then extract() runs
post_extract(raw, h, lib) ==
    LET m == ExtractRequest(raw)
    IN  IF m.errors # <<>> THEN Reject(422, m.errors, <<>>)
        ELSE extract(m.payload, h, lib)

(***************************************************************************)
(* The document path.  An upload is [pdf_name, kind, pages, given, top_n,  *)
(* ng_min, ng_max]: kind is "empty" (no bytes), "unreadable" (PdfReader    *)
(* raises) or "pdf"; pages is what page.extract_text() returns per page.   *)
(***************************************************************************)
Newline == Str("", 1, 0, 0)

\* the loop of lines 143-147
RECURSIVE JoinPages(_, _)
JoinPages(pages, text) ==
    IF pages = <<>> THEN text
    ELSE JoinPages(Tail(pages),
                   IF Truthy(Head(pages))
                       THEN Concat(Concat(text, Head(pages)), Newline)
                   ELSE text)

\* extract_text_from_pdf(file_bytes), lines 128-155
extract_text_from_pdf(up) ==
    IF up.kind # "pdf" THEN [status |-> 400, err |-> "pdf_unreadable",
                             text |-> EmptyStr]
    ELSE LET text == JoinPages(up.pages, EmptyStr)
         IN  IF ~Truthy(strip(text))
                 THEN [status |-> 400, err |-> "pdf_no_text", text |-> text]
             ELSE [status |-> 200, err |-> "", text |-> text]

\* the Form(..., ge, le) parameters of extract_pdf, lines 278-280
FormErrors(up) ==
    ErrSeq(IntField("top_n" \in up.given, up.top_n, DEFAULT_TOP_N,
                    MIN_KEYWORDS, MAX_KEYWORDS, "top_n_bounds").err)
    \o ErrSeq(IntField("ng_min" \in up.given, up.ng_min, DEFAULT_NG_MIN,
                       MIN_NGRAM, MAX_NGRAM, "ng_min_bounds").err)
    \o ErrSeq(IntField("ng_max" \in up.given, up.ng_max, DEFAULT_NG_MAX,
                       MIN_NGRAM, MAX_NGRAM, "ng_max_bounds").err)

FormValue(up, name, v, default) == IF name \in up.given THEN v ELSE default

\* extract_pdf(file, top_n, ng_min, ng_max), lines 275-326
extract_pdf(up, h, lib) ==
    LET top_n  == FormValue(up, "top_n", up.top_n, DEFAULT_TOP_N)
        ng_min == FormValue(up, "ng_min", up.ng_min, DEFAULT_NG_MIN)
        ng_max == FormValue(up, "ng_max", up.ng_max, DEFAULT_NG_MAX)
        x      == extract_text_from_pdf(up)
        req    == ExtractRequest([text |-> x.text,
                                  given |-> {"top_n", "ng_min", "ng_max"},
                                  top_n |-> top_n, ng_min |-> ng_min,
                                  ng_max |-> ng_max])
    IN  IF FormErrors(up) # <<>> THEN Reject(422, FormErrors(up), <<>>)
        ELSE IF ~up.pdf_name THEN Reject(400, <<"bad_file_type">>, <<>>)
        ELSE IF up.kind = "empty" THEN Reject(400, <<"empty_file">>, <<>>)
        ELSE IF ng_max < ng_min THEN Reject(400, <<"ng_order">>, <<>>)
        ELSE IF x.status # 200 THEN Reject(x.status, <<x.err>>, <<>>)
        ELSE IF len(strip(x.text)) < MIN_TEXT_LENGTH
            THEN Reject(400, <<"text_too_short">>, <<>>)
        ELSE IF req.errors # <<>> THEN Reject(500, req.errors, <<>>)
        ELSE extract(req.payload, h, lib)

\* health_check(), lines 345-362 (root() reports the same four flags)
health_check(h) ==
    [spacy |-> h.nlp # "None", keybert |-> h.kw_model # "None",
     summarizer |-> h.summarizer # "None",
     classifier |-> h.classifier # "None"]

(***************************************************************************)
(* State.                                                                  *)
(***************************************************************************)
VARIABLES
    phase,       \* position of the process: the load_models() step to run
                 \* next, "serving" once startup completed, or "aborted"
    nlp,         \* the four module-level handles (lines 54-57):
    kw_model,    \*   "None" or "Loaded"
    summarizer,
    classifier,
    loadLog,     \* the load attempts made, in order: <<model, succeeded>>
    lib,         \* how the libraries behave: [raises, kbOver]
    last,        \* the request a whole-handler action has served and its
                 \* response, [op, req, resp], until the response is sent
    reqs         \* SpecConc: per in-flight /extract request, its position
                 \* in extract() and its local variables

vars == <<phase, nlp, kw_model, summarizer, classifier, loadLog, lib, last,
          reqs>>

handles == <<nlp, kw_model, summarizer, classifier>>

H == [nlp |-> nlp, kw_model |-> kw_model, summarizer |-> summarizer,
      classifier |-> classifier]

(***************************************************************************)
(* The inputs the requests are drawn from.                                 *)
(***************************************************************************)
Pads == 0..MaxPad

BodyLens ==
    {0, MIN_TEXT_LENGTH - 1, MIN_TEXT_LENGTH,
     SHORT_TEXT_THRESHOLD, SHORT_TEXT_THRESHOLD + 1,
     CLASSIFY_INPUT_LIMIT, CLASSIFY_INPUT_LIMIT + 1,
     SUMMARY_INPUT_LIMIT, SUMMARY_INPUT_LIMIT + 1,
     MAX_TEXT_LENGTH, MAX_TEXT_LENGTH + 1}

AllTexts ==
    {NoneText} \cup
    {Str(d, l, b, r) : d \in {"A", "B"}, l \in Pads, b \in BodyLens, r \in Pads}

FewTexts ==
    {NoneText, Str("B", 0, MIN_TEXT_LENGTH, 0),
     Str("A", 0, SHORT_TEXT_THRESHOLD + 1, 0)}

TopNVals == {MIN_KEYWORDS - 1, MIN_KEYWORDS, MIN_KEYWORDS + 1,
             MAX_KEYWORDS, MAX_KEYWORDS + 1}
NGramVals == {MIN_NGRAM - 1, MIN_NGRAM, MIN_NGRAM + 1,
              MAX_NGRAM, MAX_NGRAM + 1}

Params(given, top_n, ng_min, ng_max) ==
    [given |-> given,
     top_n  |-> IF "top_n" \in given THEN top_n ELSE DEFAULT_TOP_N,
     ng_min |-> IF "ng_min" \in given THEN ng_min ELSE DEFAULT_NG_MIN,
     ng_max |-> IF "ng_max" \in given THEN ng_max ELSE DEFAULT_NG_MAX]

AllParams ==
    {Params(g, n, lo, hi) : g \in SUBSET {"top_n", "ng_min", "ng_max"},
                            n \in TopNVals, lo \in NGramVals, hi \in NGramVals}

FewParams ==
    {Params({}, 0, 0, 0),
     Params({"top_n", "ng_min", "ng_max"}, 2, 2, 5)}

Raw(t, p) ==
    [text |-> t, given |-> p.given, top_n |-> p.top_n, ng_min |-> p.ng_min,
     ng_max |-> p.ng_max]

RawRequests ==
    {Raw(t, p) : t \in AllTexts, p \in FewParams}
    \cup {Raw(t, p) : t \in FewTexts, p \in AllParams}

PageTexts ==
    {EmptyStr} \cup
    {Str("B", l, b, 0) :
        l \in Pads,
        b \in {4, 5, MIN_TEXT_LENGTH - 1, MIN_TEXT_LENGTH,
               SHORT_TEXT_THRESHOLD + 1, MAX_TEXT_LENGTH - 1,
               MAX_TEXT_LENGTH, MAX_TEXT_LENGTH + 1}}

SmallPages == {EmptyStr, Str("B", 0, 4, 0), Str("B", 0, 5, 0)}

PdfParams ==
    FewParams \cup
    {Params({"ng_min", "ng_max"}, 0, 3, 1), Params({"ng_min"}, 0, 5, 0),
     Params({"top_n"}, MAX_KEYWORDS + 1, 0, 0)}

Upload(name, kind, pages, p) ==
    [pdf_name |-> name, kind |-> kind, pages |-> pages, given |-> p.given,
     top_n |-> p.top_n, ng_min |-> p.ng_min, ng_max |-> p.ng_max]

Uploads ==
    {Upload(TRUE, "pdf", <<t>>, p) : t \in PageTexts, p \in PdfParams}
    \cup {Upload(TRUE, "pdf", <<t, u>>, p) :
            t \in SmallPages, u \in SmallPages, p \in PdfParams}
    \cup {Upload(nm, k, <<>>, p) :
            nm \in BOOLEAN, k \in {"empty", "unreadable"}, p \in PdfParams}

(***************************************************************************)
(* Startup: load_models(), lines 88-125.  Each load succeeds or raises.    *)
(***************************************************************************)
Loaded(ok) == IF ok THEN "Loaded" ELSE "None"

LoadSpacy ==
    /\ phase = "load_spacy"
    /\ \E ok \in BOOLEAN :
        /\ nlp' = Loaded(ok)
        /\ loadLog' = Append(loadLog, <<"spacy", ok>>)
        /\ phase' = IF ok THEN "load_keybert" ELSE "aborted"
    /\ UNCHANGED <<kw_model, summarizer, classifier, lib, last, reqs>>

LoadKeyBERT ==
    /\ phase = "load_keybert"
    /\ \E ok \in BOOLEAN :
        /\ kw_model' = Loaded(ok)
        /\ loadLog' = Append(loadLog, <<"keybert", ok>>)
        /\ phase' = IF ok THEN "load_summarizer" ELSE "aborted"
    /\ UNCHANGED <<nlp, summarizer, classifier, lib, last, reqs>>

\* a variant in which a failed summarizer load is raised like spaCy's
AfterSummarizerAborts(ok) == IF ok THEN "load_classifier" ELSE "aborted"

\* the phase after the summarizer's load: a failure is logged, not raised
AfterSummarizer(ok) == "load_classifier"

LoadSummarizer ==
    /\ phase = "load_summarizer"
    /\ \E ok \in BOOLEAN :
        /\ summarizer' = Loaded(ok)
        /\ loadLog' = Append(loadLog, <<"summarizer", ok>>)
        /\ phase' = AfterSummarizer(ok)
    /\ UNCHANGED <<nlp, kw_model, classifier, lib, last, reqs>>

LoadClassifier ==
    /\ phase = "load_classifier"
    /\ \E ok \in BOOLEAN :
        /\ classifier' = Loaded(ok)
        /\ loadLog' = Append(loadLog, <<"classifier", ok>>)
        /\ phase' = "serving"
    /\ UNCHANGED <<nlp, kw_model, summarizer, lib, last, reqs>>

(***************************************************************************)
(* Serving: one action per endpoint, the whole handler in one step.        *)
(***************************************************************************)
NoRequest == [op |-> "none", req |-> NoRecord, resp |-> NoRecord]

Serve(op, req, resp) ==
    /\ phase = "serving"
    /\ last = NoRequest
    /\ last' = [op |-> op, req |-> req, resp |-> resp]
    /\ UNCHANGED <<phase, nlp, kw_model, summarizer, classifier, loadLog,
                   lib, reqs>>

PostExtract == \E raw \in RawRequests :
    Serve("extract", raw, post_extract(raw, H, lib))

PostExtractPdf == \E up \in Uploads :
    Serve("extract_pdf", up, extract_pdf(up, H, lib))

GetHealth == Serve("health", NoRecord, health_check(H))

GetRoot == Serve("root", NoRecord, health_check(H))

\* the response leaves the process; nothing of the request is kept
Respond ==
    /\ last # NoRequest
    /\ last' = NoRequest
    /\ UNCHANGED <<phase, nlp, kw_model, summarizer, classifier, loadLog,
                   lib, reqs>>

IdleReq == [pc |-> "idle"]

InitWith(libs) ==
    /\ phase = "load_spacy"
    /\ nlp = "None"
    /\ kw_model = "None"
    /\ summarizer = "None"
    /\ classifier = "None"
    /\ loadLog = <<>>
    /\ lib \in libs
    /\ last = NoRequest
    /\ reqs = [r \in 1..NumReq |-> IdleReq]

\* KeyBERT as released: at most top_n keywords
Init == InitWith([raises : SUBSET Stages, kbOver : {0}])

Next ==
    \/ LoadSpacy
    \/ LoadKeyBERT
    \/ LoadSummarizer
    \/ LoadClassifier
    \/ PostExtract
    \/ PostExtractPdf
    \/ GetHealth
    \/ GetRoot
    \/ Respond

Spec == Init /\ [][Next]_vars

(***************************************************************************)
(* Concurrent /extract requests.  Each in-flight request runs extract()    *)
(* one stage per step on its own local variables; the steps of different   *)
(* requests interleave freely (every schedule of workers or tasks is one   *)
(* of these interleavings).  The handles are read when the stage runs.     *)
(***************************************************************************)
ConcRequests ==
    {Raw(Str("B", 1, MIN_TEXT_LENGTH, 0), Params({}, 0, 0, 0)),
     Raw(Str("A", 0, SUMMARY_INPUT_LIMIT + 1, 1),
         Params({"top_n", "ng_min", "ng_max"}, 2, 1, 2)),
     Raw(NoneText, Params({}, 0, 0, 0)),
     Raw(Str("B", 0, SHORT_TEXT_THRESHOLD + 1, 0), Params({"ng_min"}, 0, 5, 0))}

ConcLibs ==
    [raises : {{}, {"summary"}, {"tfidf", "topic"}, Stages}, kbOver : {0}]

Rest == <<phase, loadLog, lib, last>>

Finished(raw, resp) == [pc |-> "done", raw |-> raw, resp |-> resp]

\* the request arrives: body validation and the checks of lines 172-188
Arrive(r) ==
    /\ phase = "serving"
    /\ reqs[r].pc = "idle"
    /\ \E raw \in ConcRequests :
        LET m == ExtractRequest(raw)
        IN  reqs' = [reqs EXCEPT ![r] =
                IF m.errors # <<>>
                    THEN Finished(raw, Reject(422, m.errors, <<>>))
                ELSE IF extract_checks(m.payload) # NoRecord
                    THEN Finished(raw, extract_checks(m.payload))
                ELSE [pc |-> "tfidf", raw |-> raw,
                      text |-> strip(m.payload.text),
                      ng_min |-> m.payload.ng_min,
                      ng_max |-> m.payload.ng_max,
                      top_n |-> m.payload.top_n,
                      rule_keywords |-> <<>>, bert_keywords |-> <<>>,
                      phrases |-> <<>>, summary |-> EmptyStr,
                      topics |-> <<>>, calls |-> <<>>]]
    /\ UNCHANGED <<handles, Rest>>

\* request r after a stage: the stage's field set, its calls logged, and the
\* next position; an exception leaving the stage ends the request with 500
AfterStage(q, field, s, next) ==
    IF s.esc
        THEN Finished(q.raw, Reject(500, <<"internal">>, q.calls \o s.calls))
    ELSE [q EXCEPT ![field] = s.value, !.calls = q.calls \o s.calls,
                   !.pc = next]

StepTfidf(r) ==
    /\ reqs[r].pc = "tfidf"
    /\ LET q == reqs[r]
       IN  reqs' = [reqs EXCEPT ![r] = AfterStage(q, "rule_keywords",
                tfidf_stage(q.text, q.ng_min, q.ng_max, q.top_n, lib),
                "keybert")]
    /\ UNCHANGED <<handles, Rest>>

StepKeyBERT(r) ==
    /\ reqs[r].pc = "keybert"
    /\ LET q == reqs[r]
       IN  reqs' = [reqs EXCEPT ![r] = AfterStage(q, "bert_keywords",
                keybert_stage(q.text, q.ng_min, q.ng_max, q.top_n, H, lib),
                "phrases")]
    /\ UNCHANGED <<handles, Rest>>

StepPhrases(r) ==
    /\ reqs[r].pc = "phrases"
    /\ LET q == reqs[r]
       IN  reqs' = [reqs EXCEPT ![r] = AfterStage(q, "phrases",
                phrases_stage(q.text, H, lib), "summary")]
    /\ UNCHANGED <<handles, Rest>>

\* a variant that drops the summarizer handle when the model call raises
StepSummaryDropsHandle(r) ==
    /\ reqs[r].pc = "summary"
    /\ LET q == reqs[r]
           s == summary_stage(q.text, H, lib)
       IN  /\ reqs' = [reqs EXCEPT ![r] = AfterStage(q, "summary", s, "topic")]
           /\ summarizer' = IF s.calls # <<>> /\ s.value = EmptyStr
                                THEN "None" ELSE summarizer
    /\ UNCHANGED <<nlp, kw_model, classifier, Rest>>

StepSummary(r) ==
    /\ reqs[r].pc = "summary"
    /\ LET q == reqs[r]
       IN  reqs' = [reqs EXCEPT ![r] = AfterStage(q, "summary",
                summary_stage(q.text, H, lib), "topic")]
    /\ UNCHANGED <<handles, Rest>>

\* the last stage, then the aggregate record of lines 261-267
StepTopic(r) ==
    /\ reqs[r].pc = "topic"
    /\ LET q == AfterStage(reqs[r], "topics",
                           topic_stage(reqs[r].text, H, lib), "return")
       IN  reqs' = [reqs EXCEPT ![r] =
                IF q.pc = "done" THEN q
                ELSE Finished(q.raw,
                        Ok([rule_keywords |-> q.rule_keywords,
                            ml_keywords |-> q.bert_keywords,
                            phrases |-> q.phrases, summary |-> q.summary,
                            topic |-> q.topics],
                           q.calls))]
    /\ UNCHANGED <<handles, Rest>>

\* the response is sent and the worker takes the next request
Finish(r) ==
    /\ reqs[r].pc = "done"
    /\ reqs' = [reqs EXCEPT ![r] = IdleReq]
    /\ UNCHANGED <<handles, Rest>>

ConcUploads ==
    {Upload(TRUE, "pdf", <<Str("B", 0, 5, 0), Str("B", 0, 4, 0)>>,
            Params({}, 0, 0, 0)),
     Upload(TRUE, "unreadable", <<>>, Params({}, 0, 0, 0))}

\* the document path, served while /extract requests are in flight
ConcExtractPdf == \E up \in ConcUploads :
    Serve("extract_pdf", up, extract_pdf(up, H, lib))

InitConc == InitWith(ConcLibs)

NextConc ==
    \/ LoadSpacy
    \/ LoadKeyBERT
    \/ LoadSummarizer
    \/ LoadClassifier
    \/ \E r \in 1..NumReq :
        \/ Arrive(r)
        \/ StepTfidf(r)
        \/ StepKeyBERT(r)
        \/ StepPhrases(r)
        \/ StepSummary(r)
        \/ StepTopic(r)
        \/ Finish(r)
    \/ ConcExtractPdf
    \/ GetHealth
    \/ GetRoot
    \/ Respond

SpecConc == InitConc /\ [][NextConc]_vars

\* any semantic keyword model: it may return more than top_n items
InitAnyModel == InitWith([raises : SUBSET Stages, kbOver : 0..MaxExtra])

SpecAnyModel == InitAnyModel /\ [][Next]_vars

(***************************************************************************)
(* Vocabulary of the properties, stated on the request and the response.   *)
(***************************************************************************)
IsExtract == last.op = "extract"
IsPdf == last.op = "extract_pdf"

\* the text the request carries: the body's text, or what the PDF holds
LastText ==
    IF IsExtract THEN last.req.text
    ELSE IF IsPdf /\ last.req.kind = "pdf"
        THEN JoinPages(last.req.pages, EmptyStr)
    ELSE NoneText

\* length of a text after trimming
TrimLen(t) == t.body

\* the trimmed text and its first k characters
Trimmed(t) == [isNone |-> FALSE, doc |-> t.doc, lead |-> 0, body |-> t.body,
               trail |-> 0]
FirstChars(t, k) == [Trimmed(t) EXCEPT !.body = Min(t.body, k)]

MissingOrBlank(t) == t.isNone \/ t.body = 0
LengthOk(t) == MIN_TEXT_LENGTH <= TrimLen(t) /\ TrimLen(t) <= MAX_TEXT_LENGTH
NGramInBounds(v) == MIN_NGRAM <= v /\ v <= MAX_NGRAM
TopNInBounds(v) == MIN_KEYWORDS <= v /\ v <= MAX_KEYWORDS
ParamsOk(q) ==
    /\ NGramInBounds(q.ng_min) /\ NGramInBounds(q.ng_max)
    /\ q.ng_min <= q.ng_max
    /\ TopNInBounds(q.top_n)

\* the request passes validation
LastValid ==
    /\ IsExtract \/ (IsPdf /\ last.req.pdf_name /\ last.req.kind = "pdf")
    /\ ~MissingOrBlank(LastText)
    /\ LengthOk(LastText)
    /\ ParamsOk(last.req)

Rejected(resp) ==
    resp.status # 200 /\ resp.record = NoRecord /\ resp.calls = <<>>

Accepted(resp) == resp.status = 200 /\ resp.record # NoRecord

CallsOf(resp, st) ==
    {i \in 1..Len(resp.calls) : resp.calls[i].stage = st}

FieldName(st) ==
    CASE st = "tfidf" -> "rule_keywords"
      [] st = "keybert" -> "ml_keywords"
      [] st = "phrases" -> "phrases"
      [] st = "summary" -> "summary"
      [] st = "topic" -> "topic"

DefaultOf(st) == IF st = "summary" THEN EmptyStr ELSE <<>>

\* the stage fails: its model is not loaded, or its library call raises
StageFails(st) ==
    CASE st = "tfidf" ->
            "tfidf" \in lib.raises \/ DocTokens(LastText.doc) < last.req.ng_min
      [] st = "keybert" -> kw_model = "None" \/ "keybert" \in lib.raises
      [] st = "phrases" -> nlp = "None" \/ "phrases" \in lib.raises
      [] st = "summary" ->
            \/ summarizer = "None"
            \/ TrimLen(LastText) > SHORT_TEXT_THRESHOLD
               /\ "summary" \in lib.raises
      [] st = "topic" -> classifier = "None" \/ "topic" \in lib.raises

\* the same request served with every model loaded and no call raising
AllLoaded == [nlp |-> "Loaded", kw_model |-> "Loaded",
              summarizer |-> "Loaded", classifier |-> "Loaded"]
NoFailure == [raises |-> {}, kbOver |-> lib.kbOver]
UndisturbedRun ==
    IF IsExtract THEN post_extract(last.req, AllLoaded, NoFailure)
    ELSE extract_pdf(last.req, AllLoaded, NoFailure)

(***************************************************************************)
(* C1: stage isolation.  A request that passed validation gets the         *)
(* five-field record whatever subset of the stages fails; a failed stage's *)
(* field holds its default, and a stage that did not fail was invoked and  *)
(* its field is what it is when no stage fails.                            *)
(***************************************************************************)
C1_StageIsolation ==
    LastValid =>
        /\ Accepted(last.resp)
        /\ \A st \in Stages :
            IF StageFails(st)
            THEN last.resp.record[FieldName(st)] = DefaultOf(st)
            ELSE /\ Accepted(UndisturbedRun)
                 /\ last.resp.record[FieldName(st)]
                        = UndisturbedRun.record[FieldName(st)]
                 /\ (st # "summary"
                        \/ TrimLen(LastText) > SHORT_TEXT_THRESHOLD)
                        => CallsOf(last.resp, st) # {}

C1_Witness ==
    /\ IsExtract /\ LastValid /\ Accepted(last.resp)
    /\ lib.raises = {"keybert", "topic"}
    /\ summarizer = "None"
    /\ last.resp.record.rule_keywords # <<>>
    /\ last.resp.record.phrases # <<>>
    /\ last.resp.record.ml_keywords = <<>>

(***************************************************************************)
(* C2: validation gates the stages.  On both paths a request that is not   *)
(* valid is rejected with no stage invoked, and every stage invocation     *)
(* sees the request's own n-gram range and keyword count, within bounds    *)
(* and in order (never swapped, never clamped).                            *)
(***************************************************************************)
C2_ValidationGatesStages ==
    (IsExtract \/ IsPdf) =>
        /\ ~LastValid => Rejected(last.resp)
        /\ \A i \in 1..Len(last.resp.calls) :
            LET c == last.resp.calls[i]
            IN  /\ c.stage \in {"tfidf", "keybert"} =>
                    /\ c.ng_min = last.req.ng_min
                    /\ c.ng_max = last.req.ng_max
                    /\ MIN_NGRAM <= c.ng_min /\ c.ng_min <= c.ng_max
                    /\ c.ng_max <= MAX_NGRAM
                /\ c.stage = "keybert" =>
                    /\ c.top_n = last.req.top_n
                    /\ TopNInBounds(c.top_n)

\* ng_min given above the default ng_max, which pydantic does not validate
C2_Witness ==
    /\ IsExtract
    /\ ~MissingOrBlank(LastText) /\ LengthOk(LastText)
    /\ last.req.given = {"ng_min"}
    /\ last.req.ng_min = MAX_NGRAM
    /\ last.req.ng_max = DEFAULT_NG_MAX
    /\ Rejected(last.resp)

(***************************************************************************)
(* Validation precedence on /extract: classes of reported errors.          *)
(***************************************************************************)
ErrorClass(e) ==
    CASE e = "no_text" -> "text_missing"
      [] e \in {"text_too_short", "text_too_long"} -> "text_length"
      [] e = "ng_order" -> "ng_order"
      [] e \in {"ng_min_bounds", "ng_max_bounds"} -> "ng_bounds"
      [] e = "top_n_bounds" -> "top_n_bounds"
      [] OTHER -> "other"

TextClass(c) == IF c \in {"text_missing", "text_length"} THEN "text" ELSE c

\* the first violated constraint in the order the claim states
FirstViolatedAsClaimed(q) ==
    IF MissingOrBlank(q.text) \/ ~LengthOk(q.text) THEN "text"
    ELSE IF q.ng_max < q.ng_min THEN "ng_order"
    ELSE IF ~NGramInBounds(q.ng_min) \/ ~NGramInBounds(q.ng_max)
        THEN "ng_bounds"
    ELSE IF ~TopNInBounds(q.top_n) THEN "top_n_bounds"
    ELSE "none"

FirstViolatedAmended(q) ==
    IF ~q.text.isNone /\ ~LengthOk(q.text) THEN "text_length"
    ELSE IF ~TopNInBounds(q.top_n) THEN "top_n_bounds"
    ELSE IF ~NGramInBounds(q.ng_min) \/ ~NGramInBounds(q.ng_max)
        THEN "ng_bounds"
    ELSE IF q.ng_max < q.ng_min THEN "ng_order"
    ELSE IF q.text.isNone THEN "text_missing"
    ELSE "none"

DocumentFailure ==
    \/ last.req.kind \in {"empty", "unreadable"}
    \/ MissingOrBlank(LastText)
    \/ TrimLen(LastText) < MIN_TEXT_LENGTH
    \/ TrimLen(LastText) > MAX_TEXT_LENGTH
    \/ last.req.ng_max < last.req.ng_min

(***************************************************************************)
(* C4: document-path failures are client errors.  A /extract_pdf request   *)
(* rejected for an empty upload, an unreadable PDF, no extractable text, a *)
(* trimmed text shorter than MIN_TEXT_LENGTH or longer than                *)
(* MAX_TEXT_LENGTH, or ng_max < ng_min gets a 4xx status, never 5xx; only  *)
(* a valid request gets the record.                                        *)
(***************************************************************************)
C4_DocumentFailuresAreClientErrors ==
    IsPdf =>
        /\ DocumentFailure =>
            /\ Rejected(last.resp)
            /\ 400 <= last.resp.status /\ last.resp.status <= 499
        /\ Accepted(last.resp) => LastValid

(***************************************************************************)
(* C5: summarizer short-text bypass.  For a validated request whose        *)
(* trimmed text has at most 100 characters the summary is that text and    *)
(* the summarization model is not invoked, whatever models are loaded.     *)
(***************************************************************************)
C5_ShortTextBypass ==
    (LastValid /\ TrimLen(LastText) <= SHORT_TEXT_THRESHOLD) =>
        /\ Accepted(last.resp)
        /\ last.resp.record.summary = Trimmed(LastText)
        /\ CallsOf(last.resp, "summary") = {}

(***************************************************************************)
(* C6: the text length bounds are measured on the trimmed text.  With      *)
(* everything else valid, a text is accepted exactly when its trimmed      *)
(* length is in [MIN_TEXT_LENGTH, MAX_TEXT_LENGTH], whatever whitespace    *)
(* surrounds it, and the stages are handed the trimmed text.               *)
(***************************************************************************)
C6_TrimmedLengthBoundaries ==
    /\ ( /\ IsExtract \/ (IsPdf /\ last.req.pdf_name /\ last.req.kind = "pdf")
         /\ ~LastText.isNone
         /\ ParamsOk(last.req) ) =>
            /\ Accepted(last.resp) <=> LengthOk(LastText)
            /\ Rejected(last.resp) <=> ~LengthOk(LastText)
    /\ (IsExtract \/ IsPdf) =>
        \A i \in 1..Len(last.resp.calls) :
            LET c == last.resp.calls[i]
            IN  /\ c.input.lead = 0 /\ c.input.trail = 0
                /\ c.input.doc = LastText.doc
                /\ c.stage \in {"tfidf", "keybert", "phrases"}
                    => c.input.body = TrimLen(LastText)

C6_Witness ==
    /\ IsExtract
    /\ last.req.text.lead > 0 /\ last.req.text.trail > 0
    /\ TrimLen(last.req.text) = MIN_TEXT_LENGTH
    /\ Accepted(last.resp)
    /\ CallsOf(last.resp, "tfidf") # {}

(***************************************************************************)
(* C7: keyword count cap.  In every successful response rule_keywords and  *)
(* ml_keywords hold at most top_n entries, whatever the lexical scorer or  *)
(* the semantic keyword model returns; with fewer content tokens than      *)
(* ng_min both are empty and the request still succeeds.                   *)
(***************************************************************************)
C7_KeywordCap ==
    /\ ((IsExtract \/ IsPdf) /\ Accepted(last.resp)) =>
        /\ Len(last.resp.record.rule_keywords) <= last.req.top_n
        /\ Len(last.resp.record.ml_keywords) <= last.req.top_n
    /\ (LastValid /\ DocTokens(LastText.doc) < last.req.ng_min) =>
        /\ Accepted(last.resp)
        /\ last.resp.record.rule_keywords = <<>>
        /\ last.resp.record.ml_keywords = <<>>

(***************************************************************************)
(* C8: per-stage input shaping.  The summarization model is invoked only   *)
(* for a text longer than 100 characters and sees the first 1024           *)
(* characters of the trimmed text; the classifier sees the first 512 with  *)
(* the eight fixed labels; TF-IDF, KeyBERT and phrase chunking see the     *)
(* whole trimmed text.                                                     *)
(***************************************************************************)
C8_StageInputShaping ==
    (IsExtract \/ IsPdf) =>
        \A i \in 1..Len(last.resp.calls) :
            LET c == last.resp.calls[i]
            IN  CASE c.stage = "summary" ->
                        /\ TrimLen(LastText) > SHORT_TEXT_THRESHOLD
                        /\ c.input = FirstChars(LastText, SUMMARY_INPUT_LIMIT)
                  [] c.stage = "topic" ->
                        /\ c.input = FirstChars(LastText, CLASSIFY_INPUT_LIMIT)
                        /\ c.candidate_labels = TOPIC_LABELS
                        /\ Len(c.candidate_labels) = 8
                  [] OTHER -> c.input = Trimmed(LastText)

C8_Witness ==
    /\ IsExtract /\ Accepted(last.resp)
    /\ TrimLen(LastText) = SUMMARY_INPUT_LIMIT + 1
    /\ \A st \in Stages : CallsOf(last.resp, st) # {}

LoadOrder == <<"spacy", "keybert", "summarizer", "classifier">>

Tried(m) == \E i \in 1..Len(loadLog) : loadLog[i][1] = m
Succeeded(m) == \E i \in 1..Len(loadLog) : loadLog[i] = <<m, TRUE>>
FailedLoad(m) == \E i \in 1..Len(loadLog) : loadLog[i] = <<m, FALSE>>

(***************************************************************************)
(* C9: startup and readiness.  The models are loaded once, in the order    *)
(* spaCy, KeyBERT, summarizer, classifier; a failed summarizer or          *)
(* classifier load never aborts startup and leaves exactly that handle     *)
(* unset; a failed spaCy load aborts startup and no request is served;     *)
(* once startup completed, /health reports a model as loaded exactly when  *)
(* its load succeeded.                                                     *)
(***************************************************************************)
C9_StartupAndReadiness ==
    /\ Len(loadLog) <= Len(LoadOrder)
    /\ \A i \in 1..Len(loadLog) : loadLog[i][1] = LoadOrder[i]
    /\ phase = "aborted" <=> (FailedLoad("spacy") \/ FailedLoad("keybert"))
    /\ FailedLoad("summarizer") => Tried("classifier") \/ phase = "load_classifier"
    /\ phase # "serving" =>
        /\ last = NoRequest
        /\ \A r \in 1..NumReq : reqs[r] = IdleReq
    /\ phase = "serving" =>
        /\ Len(loadLog) = Len(LoadOrder)
        /\ (nlp # "None") <=> Succeeded("spacy")
        /\ (kw_model # "None") <=> Succeeded("keybert")
        /\ (summarizer # "None") <=> Succeeded("summarizer")
        /\ (classifier # "None") <=> Succeeded("classifier")
    /\ last.op = "health" =>
        last.resp = [spacy |-> Succeeded("spacy"),
                     keybert |-> Succeeded("keybert"),
                     summarizer |-> Succeeded("summarizer"),
                     classifier |-> Succeeded("classifier")]

C9_Witness ==
    /\ last.op = "health"
    /\ FailedLoad("summarizer")
    /\ ~last.resp.summarizer
    /\ last.resp.classifier

HandlesReadOnly == phase = "serving" => handles' = handles

DoneAsAlone ==
    \A r \in 1..NumReq :
        reqs[r].pc = "done" =>
            /\ reqs[r].resp = post_extract(reqs[r].raw, H, lib)
            /\ \A q \in 1..NumReq :
                (reqs[q].pc = "done" /\ reqs[q].raw = reqs[r].raw)
                    => reqs[q].resp = reqs[r].resp

(***************************************************************************)
(* C10: request independence under concurrency.  While serving, no step of *)
(* any handler changes the model handles; and whatever the interleaving,   *)
(* the response of each /extract request is the one the request gets when  *)
(* it runs alone, so identical requests get identical records.             *)
(***************************************************************************)
C10_RequestIndependence == [][HandlesReadOnly]_vars /\ []DoneAsAlone

\* a request completed while an identical one is still between its stages
C10_Witness ==
    /\ reqs[1].pc = "done" /\ Accepted(reqs[1].resp)
    /\ reqs[2].pc = "summary"
    /\ reqs[2].raw = reqs[1].raw
    /\ "summary" \in lib.raises

====
